---- MODULE Spec2Model ----
(***************************************************************************)
(* A model of benchmark.cpp: the hand-rolled aligned allocator             *)
(* (aligned_malloc / aligned_free) on top of the platform's malloc / free, *)
(* and the benchmark driver (benchmark / main).                            *)
(*                                                                         *)
(* Addresses and size_t values are unsigned integers of AddrBits bits;     *)
(* memory is a byte-addressed partial map (an address outside its domain   *)
(* holds an indeterminate byte).  The platform allocator is instrumented:  *)
(* it tracks the blocks it has issued and not yet taken back.              *)
(***************************************************************************)
EXTENDS Integers, Sequences, FiniteSets, TLC

\* ------------------------------------------------------------------ bounds
\* Width of uintptr_t / size_t in the model (64 on the usual build).
AddrBits == 24
\* The platform allocator issues raw addresses 1..MaxRawAddr and, for the
\* arithmetic specification, the TopSpan addresses below the top of memory.
MaxRawAddr == 16
TopSpan == 40
\* Request sizes of the heap clients: 0..MaxSize.
MaxSize == 2
\* Alignments of the heap clients: 2^0 .. 2^MaxAlignLog.
MaxAlignLog == 4
\* Alignments of the arithmetic specification: 1..MaxAlignment, every integer.
MaxAlignment == 17
\* Blocks a heap client keeps alive at once.
MaxLive == 2
\* The driver's iteration counts are capped at MaxIterations per loop.
MaxIterations == 2

\* ------------------------------------------------------- program constants
\* sizeof(void*)
PointerSize == 8

\* 2^AddrBits: one more than the greatest uintptr_t / size_t value.
Modulus == 2 ^ AddrBits

NullPtr == 0

\* A pointer value that is not an address of the modelled memory.
WildPtr == Modulus

VARIABLES
    mem,          \* memory: written address -> byte
    outstanding,  \* instrumented malloc/free: blocks issued and not freed
    blocks,       \* blocks handed out by aligned_malloc and not yet released
    call,         \* the operation performed by the last step, and its effects
    invalidFree,  \* free() was called with an address that is not outstanding
    pc, row, i, ptr, out   \* the driver: position, configuration, locals, stdout

heapVars == <<mem, outstanding, blocks, call, invalidFree>>
driverVars == <<pc, row, i, ptr, out>>
vars == <<mem, outstanding, blocks, call, invalidFree, pc, row, i, ptr, out>>

\* ---------------------------------------------------- unsigned arithmetic
\* x reduced to an AddrBits-bit unsigned value.
Wrap(x) == (x + Modulus) % Modulus

RECURSIVE BitAndN(_, _, _)
\* a & b over the low n bits.
BitAndN(a, b, n) ==
    IF n = 0 \/ a = 0 \/ b = 0 THEN 0
    ELSE (a % 2) * (b % 2) + 2 * BitAndN(a \div 2, b \div 2, n - 1)

\* a & b
BitAnd(a, b) == BitAndN(a, b, AddrBits)

\* ~a
BitNot(a) == Modulus - 1 - a

IsPowerOfTwo(a) == a >= 1 /\ BitAnd(a, a - 1) = 0

\* -------------------------------------------------------- aligned_malloc
\* size + alignment + sizeof(void*): the argument of malloc, in size_t.
RequestBytes(size, alignment) == Wrap(size + alignment + PointerSize)

\* Variant: the mask is ~alignment instead of ~(alignment - 1).
AlignedAddrWrongMask(raw_mem, alignment) ==
    BitAnd(Wrap(raw_mem + alignment + PointerSize), BitNot(alignment))

\* Variant: rounds raw_mem up to the alignment, leaving no room for the slot.
AlignedAddrNoHeadroom(raw_mem, alignment) ==
    BitAnd(Wrap(raw_mem + alignment - 1), BitNot(Wrap(alignment - 1)))

\* (raw_mem + alignment + sizeof(void*)) & ~(alignment - 1), in uintptr_t.
AlignedAddr(raw_mem, alignment) ==
    BitAnd(Wrap(raw_mem + alignment + PointerSize), BitNot(Wrap(alignment - 1)))

\* Variant: index [0] instead of [-1].
SlotAddrAtHandle(aligned) == aligned

\* Variant: index [-2] instead of [-1].
SlotAddrTwoBack(aligned) == Wrap(aligned - 2 * PointerSize)

\* &reinterpret_cast<void**>(aligned)[-1]: the address of the metadata slot.
SlotAddr(aligned) == Wrap(aligned - PointerSize)

\* The addresses of the bytes of a pointer stored at address a.
PtrBytes(a) == { Wrap(a + k) : k \in 0 .. PointerSize - 1 }

RECURSIVE ByteOf(_, _)
\* Byte k (little endian) of the pointer value v.
ByteOf(v, k) == IF k = 0 THEN v % 256 ELSE ByteOf(v \div 256, k - 1)

\* *(void** )a = v: memory m after storing the pointer v at address a.
StorePtr(m, a, v) ==
    [x \in DOMAIN m \cup PtrBytes(a) |->
        IF Wrap(x - a) < PointerSize
        THEN ByteOf(v, Wrap(x - a))
        ELSE m[x]]

RECURSIVE PtrValue(_, _, _)
\* The pointer value of the bytes k .. PointerSize-1 stored at a, as the value
\* of the bytes from k upwards; WildPtr when it is not an address of the model.
PtrValue(m, a, k) ==
    IF k = PointerSize THEN 0
    ELSE LET hi == PtrValue(m, a, k + 1)
         IN  IF hi >= Modulus \div 256 THEN WildPtr
             ELSE hi * 256 + m[Wrap(a + k)]

\* The block of the instrumented allocator that starts at address p.
BlockAt(p) == { b \in outstanding : b.base = p }

\* *(void** )a: the values a load of the pointer at address a can yield.  A
\* load that touches a byte never written reads an indeterminate value.
LoadPtr(m, a) ==
    IF PtrBytes(a) \subseteq DOMAIN m
    THEN { PtrValue(m, a, 0) }
    ELSE { NullPtr, WildPtr } \cup { b.base : b \in outstanding }

\* ------------------------------------------------ the platform allocator
\* The bytes a block of len bytes occupies; a zero-length block still
\* occupies its own address.
Extent(len) == IF len = 0 THEN 1 ELSE len

\* The bytes of the block [base, base + len).
BlockBytes(base, len) == base .. (base + Extent(len) - 1)

\* malloc(n) may return address r: the block fits below the top of memory,
\* with its one-past-the-end address representable, clear of issued blocks.
CanIssue(r, n) ==
    /\ r >= 1
    /\ r + n < Modulus
    /\ \A b \in outstanding :
          \/ r + Extent(n) <= b.base
          \/ b.base + Extent(b.len) <= r

\* malloc(n): null, or one of the addresses of `addrs` the allocator can issue.
Malloc(n, addrs) == { NullPtr } \cup { r \in addrs : CanIssue(r, n) }

\* The allocator's records after malloc(n) returned r.
AfterMalloc(r, n) ==
    IF r = NullPtr THEN outstanding
    ELSE outstanding \cup { [base |-> r, len |-> n] }

\* The allocator's records after free(p); free(NULL) does nothing.
AfterFree(p) == outstanding \ BlockAt(p)

\* free(p) with p neither null nor the start of an outstanding block.
IsInvalidFree(p) == p # NullPtr /\ BlockAt(p) = {}

\* Memory after free(p): the bytes of the freed block become indeterminate.
MemAfterFree(m, p) ==
    LET gone == UNION { BlockBytes(b.base, b.len) : b \in BlockAt(p) }
    IN  [x \in DOMAIN m \ gone |-> m[x]]

\* The record of a step: the operation; for aligned_malloc the arguments (once
\* malloc has returned a block), malloc's result, the result and the bytes
\* stored; for a release whether the handle was null, the number of pointers
\* loaded and the number of calls of free.
NoCall ==
    [op |-> "none", size |-> 0, alignment |-> 0, raw_mem |-> NullPtr,
     ret |-> NullPtr, stores |-> {}, null_arg |-> FALSE, loads |-> 0,
     frees |-> 0]

\* ----------------------------------------------------------- operations
\* What aligned_malloc does once malloc(requested) has returned a block.
CarveBlock(size, alignment, raw_mem, requested) ==
    \E aligned_addr \in { AlignedAddr(raw_mem, alignment) } :
       /\ mem' = StorePtr(mem, SlotAddr(aligned_addr), raw_mem)
       /\ outstanding' = AfterMalloc(raw_mem, requested)
       /\ blocks' = blocks \cup
              { [handle |-> aligned_addr, raw |-> raw_mem,
                 size |-> size, alignment |-> alignment,
                 requested |-> requested] }
       /\ call' = [NoCall EXCEPT !.op = "aligned_malloc", !.size = size,
                      !.alignment = alignment,
                      !.raw_mem = raw_mem, !.ret = aligned_addr,
                      !.stores = PtrBytes(SlotAddr(aligned_addr))]
       /\ UNCHANGED invalidFree

\* What aligned_malloc does when malloc has returned null: return nullptr.
ReturnNull ==
    /\ call' = [NoCall EXCEPT !.op = "aligned_malloc"]
    /\ UNCHANGED <<mem, outstanding, blocks, invalidFree>>

\* Variant: no test of malloc's result.
aligned_malloc_unchecked(size, alignment, raw_mem) ==
    CarveBlock(size, alignment, raw_mem, RequestBytes(size, alignment))

\* Variant: a request of zero bytes is answered with nullptr.
aligned_malloc_zero_null(size, alignment, raw_mem) ==
    IF raw_mem = NullPtr
    THEN ReturnNull
    ELSE IF size = 0
         THEN /\ call' = [NoCall EXCEPT !.op = "aligned_malloc", !.size = size,
                             !.alignment = alignment, !.raw_mem = raw_mem]
              /\ outstanding' =
                     AfterMalloc(raw_mem, RequestBytes(size, alignment))
              /\ UNCHANGED <<mem, blocks, invalidFree>>
         ELSE CarveBlock(size, alignment, raw_mem,
                         RequestBytes(size, alignment))

\* aligned_malloc(size, alignment), when malloc(requested) returns raw_mem:
\* its effect on the heap.
aligned_malloc(size, alignment, raw_mem) ==
    IF raw_mem = NullPtr
    THEN ReturnNull
    ELSE CarveBlock(size, alignment, raw_mem, RequestBytes(size, alignment))

\* What aligned_free does with the pointer p it passes to free.
FreeRaw(aligned_mem, p, loads) ==
    /\ outstanding' = AfterFree(p)
    /\ mem' = MemAfterFree(mem, p)
    /\ invalidFree' = (invalidFree \/ IsInvalidFree(p))
    /\ blocks' = { b \in blocks : b.handle # aligned_mem }
    /\ call' = [NoCall EXCEPT !.op = "aligned_free",
                   !.null_arg = (aligned_mem = NullPtr),
                   !.loads = loads, !.frees = 1]

\* What aligned_free does with a null handle: nothing.
FreeNothing ==
    /\ call' = [NoCall EXCEPT !.op = "aligned_free", !.null_arg = TRUE]
    /\ UNCHANGED <<mem, outstanding, blocks, invalidFree>>

\* Variant: frees the aligned pointer itself.
aligned_free_handle(aligned_mem) ==
    IF aligned_mem # NullPtr
    THEN FreeRaw(aligned_mem, aligned_mem, 0)
    ELSE FreeNothing

\* Variant: no test of the handle.
aligned_free_unchecked(aligned_mem) ==
    \E p \in LoadPtr(mem, SlotAddr(aligned_mem)) :
       FreeRaw(aligned_mem, p, 1)

\* aligned_free(aligned_mem).
aligned_free(aligned_mem) ==
    IF aligned_mem # NullPtr
    THEN \E p \in LoadPtr(mem, SlotAddr(aligned_mem)) :
            FreeRaw(aligned_mem, p, 1)
    ELSE FreeNothing

\* ------------------------------------------------------- heap clients
Sizes == 0 .. MaxSize
Alignments == { 2 ^ k : k \in 0 .. MaxAlignLog }
HeapAddrs == 1 .. MaxRawAddr

\* A client allocates a block.
Allocate ==
    /\ Cardinality(blocks) < MaxLive
    /\ \E size \in Sizes, alignment \in Alignments :
         \E raw_mem \in Malloc(RequestBytes(size, alignment), HeapAddrs) :
            aligned_malloc(size, alignment, raw_mem)
    /\ UNCHANGED driverVars

\* The payload offsets a client writes: the first and the last byte.
PayloadEnds(size) == IF size = 0 THEN {} ELSE { 0, size - 1 }

\* A client writes a byte at an end of the payload [handle, handle + size) of
\* a block.
WritePayload ==
    /\ \E b \in blocks : \E off \in PayloadEnds(b.size) :
          /\ mem' = [x \in DOMAIN mem \cup { Wrap(b.handle + off) } |->
                        IF x = Wrap(b.handle + off) THEN 255 ELSE mem[x]]
          /\ call' = [NoCall EXCEPT !.op = "write"]
    /\ UNCHANGED <<outstanding, blocks, invalidFree>>
    /\ UNCHANGED driverVars

\* A client releases a block it holds.
Release ==
    /\ \E b \in blocks : aligned_free(b.handle)
    /\ UNCHANGED driverVars

\* A client releases the null handle.
ReleaseNull ==
    /\ aligned_free(NullPtr)
    /\ UNCHANGED driverVars

HeapInit ==
    /\ mem = << >>
    /\ outstanding = {}
    /\ blocks = {}
    /\ call = NoCall
    /\ invalidFree = FALSE

DriverIdle ==
    /\ pc = "idle"
    /\ row = 0
    /\ i = 0
    /\ ptr = NullPtr
    /\ out = << >>

Init == HeapInit /\ DriverIdle

Next == Allocate \/ WritePayload \/ Release \/ ReleaseNull

\* Clients that allocate, write their payloads and release, in any order.
Spec == Init /\ [][Next]_vars

\* ------------------------------------------- one call, over wide inputs
\* Sizes, alignments and raw addresses at both ends of the unsigned range.
ArithSizes == (0 .. MaxSize) \cup { Modulus - k : k \in 1 .. TopSpan }
ArithAlignments == (1 .. MaxAlignment) \cup { 2 ^ (AddrBits - 1) }
ArithAddrs == (1 .. MaxRawAddr) \cup { Modulus - k : k \in 1 .. TopSpan }

\* The first call of aligned_malloc on an empty heap.
FirstCall ==
    /\ call.op = "none"
    /\ \E size \in ArithSizes, alignment \in ArithAlignments :
         \E raw_mem \in Malloc(RequestBytes(size, alignment), ArithAddrs) :
            aligned_malloc(size, alignment, raw_mem)
    /\ UNCHANGED driverVars

ArithNext == FirstCall

SpecArith == Init /\ [][ArithNext]_vars

\* ------------------------------------------------------------ the driver
\* Variant: the third and fourth calls swapped.
ConfigsSwapped ==
    << [size |-> 64, alignment |-> 16, iterations |-> 100000],
       [size |-> 128, alignment |-> 32, iterations |-> 100000],
       [size |-> 1024, alignment |-> 64, iterations |-> 100000],
       [size |-> 256, alignment |-> 64, iterations |-> 100000],
       [size |-> 1024 * 1024, alignment |-> 64, iterations |-> 1000] >>

\* main: the arguments of the five calls of benchmark, in order.
Configs ==
    << [size |-> 64, alignment |-> 16, iterations |-> 100000],
       [size |-> 128, alignment |-> 32, iterations |-> 100000],
       [size |-> 256, alignment |-> 64, iterations |-> 100000],
       [size |-> 1024, alignment |-> 64, iterations |-> 100000],
       [size |-> 1024 * 1024, alignment |-> 64, iterations |-> 1000] >>

\* The iteration count of the current call of benchmark, capped.
Iterations ==
    IF Configs[row].iterations < MaxIterations
    THEN Configs[row].iterations ELSE MaxIterations

\* std::aligned_alloc(alignment, size): null, or an issuable multiple of
\* alignment.
AlignedAlloc(alignment, size) ==
    { NullPtr } \cup
    { r \in { alignment * k : k \in 1 .. MaxRawAddr } : CanIssue(r, size) }

\* The line printed after a timed loop (the elapsed count is not modelled).
Line(label) ==
    [label |-> label, size |-> Configs[row].size,
     alignment |-> Configs[row].alignment]

\* void* ptr = std::aligned_alloc(alignment, size);
RefLoopAlloc ==
    /\ pc = "ref_loop"
    /\ i < Iterations
    /\ \E p \in AlignedAlloc(Configs[row].alignment, Configs[row].size) :
          /\ ptr' = p
          /\ outstanding' = AfterMalloc(p, Configs[row].size)
          /\ call' = [NoCall EXCEPT !.op = "std::aligned_alloc"]
    /\ pc' = "ref_free"
    /\ UNCHANGED <<mem, blocks, invalidFree, row, i, out>>

\* std::free(ptr); ++i
RefLoopFree ==
    /\ pc = "ref_free"
    /\ outstanding' = AfterFree(ptr)
    /\ mem' = MemAfterFree(mem, ptr)
    /\ invalidFree' = (invalidFree \/ IsInvalidFree(ptr))
    /\ call' = [NoCall EXCEPT !.op = "std::free",
                   !.null_arg = (ptr = NullPtr), !.frees = 1]
    /\ i' = i + 1
    /\ pc' = "ref_loop"
    /\ UNCHANGED <<blocks, row, ptr, out>>

\* The first loop is over: print its line and start the second.
RefReport ==
    /\ pc = "ref_loop"
    /\ ~(i < Iterations)
    /\ out' = Append(out, Line("std::aligned_alloc"))
    /\ i' = 0
    /\ pc' = "my_loop"
    /\ UNCHANGED <<mem, outstanding, blocks, call, invalidFree, row, ptr>>

\* Variant: ptr keeps its old value when aligned_malloc returns nullptr.
MyLoopAllocKeepsPtr ==
    /\ pc = "my_loop"
    /\ i < Iterations
    /\ \E raw_mem \in Malloc(RequestBytes(Configs[row].size,
                                          Configs[row].alignment), HeapAddrs) :
          aligned_malloc(Configs[row].size, Configs[row].alignment, raw_mem)
    /\ ptr' = IF call'.ret = NullPtr THEN ptr ELSE call'.ret
    /\ pc' = "my_free"
    /\ UNCHANGED <<row, i, out>>

\* void* ptr = aligned_malloc(size, alignment);
MyLoopAlloc ==
    /\ pc = "my_loop"
    /\ i < Iterations
    /\ \E raw_mem \in Malloc(RequestBytes(Configs[row].size,
                                          Configs[row].alignment), HeapAddrs) :
          aligned_malloc(Configs[row].size, Configs[row].alignment, raw_mem)
    /\ ptr' = call'.ret
    /\ pc' = "my_free"
    /\ UNCHANGED <<row, i, out>>

\* aligned_free(ptr); ++i
MyLoopFree ==
    /\ pc = "my_free"
    /\ aligned_free(ptr)
    /\ i' = i + 1
    /\ pc' = "my_loop"
    /\ UNCHANGED <<row, ptr, out>>

\* The second loop is over: print its line and return to main, which calls
\* benchmark with the next configuration or returns 0.
MyReport ==
    /\ pc = "my_loop"
    /\ ~(i < Iterations)
    /\ out' = Append(out, Line("aligned_malloc"))
    /\ IF row < Len(Configs)
       THEN /\ row' = row + 1
            /\ i' = 0
            /\ pc' = "ref_loop"
       ELSE /\ pc' = "done"
            /\ UNCHANGED <<row, i>>
    /\ UNCHANGED <<mem, outstanding, blocks, call, invalidFree, ptr>>

\* main calls benchmark with the first configuration.
DriverInit ==
    /\ HeapInit
    /\ pc = "ref_loop"
    /\ row = 1
    /\ i = 0
    /\ ptr = NullPtr
    /\ out = << >>

DriverNext ==
    \/ RefLoopAlloc
    \/ RefLoopFree
    \/ RefReport
    \/ MyLoopAlloc
    \/ MyLoopFree
    \/ MyReport

\* The program is sequential and each call returns: a step that can be taken
\* is taken.
SpecDriver == DriverInit /\ [][DriverNext]_vars /\ WF_vars(DriverNext)

\* ================================================================ claims
\* The pointer stored in the PointerSize bytes below handle is exactly v.
SlotHolds(handle, v) ==
    /\ PtrBytes(Wrap(handle - PointerSize)) \subseteq DOMAIN mem
    /\ PtrValue(mem, Wrap(handle - PointerSize), 0) = v

\* The allocator's record of the raw block behind the aligned block b.
RawBlockOf(b) == [base |-> b.raw, len |-> b.requested]

\* C1: for every raw address the allocator can return, every size > 0 and
\* every power-of-two alignment, the non-null handle returned by
\* aligned_malloc is an exact multiple of alignment.
C1_HandleIsAligned ==
    \A b \in blocks :
        (b.size > 0 /\ IsPowerOfTwo(b.alignment) /\ b.handle # NullPtr)
            => b.handle % b.alignment = 0

\* An unaligned raw address was rounded to a multiple of 16.
C1_Witness ==
    \E b \in blocks :
        /\ b.size > 0
        /\ b.alignment = 16
        /\ b.raw % 16 # 0
        /\ b.handle # NullPtr
        /\ b.handle % 16 = 0
        /\ call.ret = b.handle

\* C2: from the return of aligned_malloc until aligned_free, in every state,
\* the PointerSize bytes at handle - PointerSize hold the raw address the
\* allocator issued for the block, while callers write only inside payloads.
C2_SlotHoldsRaw ==
    \A b \in blocks : b.handle # NullPtr => SlotHolds(b.handle, b.raw)

\* Two blocks are alive, one has both ends of its payload written, and its
\* slot still holds its raw address.
C2_Witness ==
    /\ Cardinality(blocks) = 2
    /\ \E b \in blocks :
          /\ b.size >= 2
          /\ b.handle \in DOMAIN mem
          /\ mem[b.handle] = 255
          /\ (b.handle + b.size - 1) \in DOMAIN mem
          /\ SlotHolds(b.handle, b.raw)

\* A step that releases the aligned block b calls free exactly once, and the
\* call is valid and takes back exactly the raw block issued for b, which is
\* outstanding until then: the pointer freed is b's raw address.
ReleaseFreesRaw ==
    \A b \in blocks :
        b \notin blocks' =>
            /\ call'.op = "aligned_free"
            /\ ~call'.null_arg
            /\ call'.loads = 1
            /\ call'.frees = 1
            /\ ~invalidFree'
            /\ RawBlockOf(b) \in outstanding
            /\ outstanding' = outstanding \ { RawBlockOf(b) }

\* The outstanding raw blocks are exactly those behind the live aligned
\* blocks: none is left once every allocation has been released.
OutstandingMatchesBlocks == outstanding = { RawBlockOf(b) : b \in blocks }

\* C3: aligned_free(aligned_malloc(size, alignment)) calls the raw
\* deallocator exactly once, with the address the raw allocator issued for
\* the block; every freed address is outstanding when freed, and after any
\* number of allocate-then-release pairs nothing is outstanding.
C3_RoundTrip ==
    /\ [][ReleaseFreesRaw]_vars
    /\ [](~invalidFree)
    /\ [](OutstandingMatchesBlocks)

\* A release of a non-null handle called free once and left the heap empty.
C3_Witness ==
    /\ call.op = "aligned_free"
    /\ ~call.null_arg
    /\ call.frees = 1
    /\ blocks = {}
    /\ outstanding = {}
    /\ ~invalidFree

\* C4: when the raw block is [raw, raw + size + alignment + PointerSize),
\* for every alignment >= 1, raw + PointerSize <= handle and handle + size
\* <= raw + size + alignment + PointerSize: the stored slot and the payload
\* lie inside the raw block and do not overlap.
C4_SlotAndPayloadInsideRawBlock ==
    \A b \in blocks :
        (b.alignment >= 1
         /\ b.requested = b.size + b.alignment + PointerSize)
            => /\ b.raw + PointerSize <= b.handle
               /\ b.handle + b.size
                     <= b.raw + b.size + b.alignment + PointerSize
               /\ call.ret = b.handle
               /\ \A x \in call.stores : b.raw <= x /\ x < b.handle

\* The tightest headroom (handle = raw + PointerSize + 1) under a request
\* near the top of the size range.
C4_Witness ==
    \E b \in blocks :
        /\ b.requested = b.size + b.alignment + PointerSize
        /\ b.size > MaxSize
        /\ b.alignment = 16
        /\ b.handle = b.raw + PointerSize + 1

\* A step in which aligned_malloc found malloc to fail returns null and
\* changes neither memory nor the allocator's records.
FailedMallocDoesNothing ==
    (call'.op = "aligned_malloc" /\ call'.raw_mem = NullPtr /\ call' # call)
        => /\ call'.ret = NullPtr
           /\ call'.stores = {}
           /\ call'.frees = 0
           /\ UNCHANGED <<mem, outstanding, blocks, invalidFree>>

\* C5: whenever the raw allocator returns null, aligned_malloc returns null,
\* writes no byte, does not call the raw deallocator; a non-null handle is
\* returned only when the raw allocation succeeded.
C5_ExhaustionPropagated ==
    /\ [][FailedMallocDoesNothing]_vars
    /\ []((call.op = "aligned_malloc" /\ call.ret # NullPtr)
             => call.raw_mem # NullPtr)
    /\ []((call.op = "aligned_malloc" /\ call.raw_mem = NullPtr)
             => call.ret = NullPtr)

\* malloc failed while a block was alive.
C5_Witness ==
    /\ call.op = "aligned_malloc"
    /\ call.raw_mem = NullPtr
    /\ call.ret = NullPtr
    /\ blocks # {}

\* A step that is aligned_free(null) reads nothing, frees nothing and leaves
\* memory and the allocator's records as they were.
FreeNullDoesNothing ==
    (call'.op = "aligned_free" /\ call'.null_arg /\ call' # call)
        => /\ call'.loads = 0
           /\ call'.frees = 0
           /\ UNCHANGED <<mem, outstanding, blocks, invalidFree>>

\* C6: aligned_free(null) performs no operation, in any state and however
\* often it is called.
C6_FreeNullIsNoOp ==
    /\ [][FreeNullDoesNothing]_vars
    /\ []((call.op = "aligned_free" /\ call.null_arg)
             => (call.loads = 0 /\ call.frees = 0))

\* aligned_free(null) was called with two blocks alive.
C6_Witness ==
    /\ call.op = "aligned_free"
    /\ call.null_arg
    /\ Cardinality(blocks) = 2
    /\ Cardinality(outstanding) = 2

\* C7: for every power-of-two alignment, aligned_malloc(0, alignment), when
\* malloc succeeds, returns a non-null multiple of alignment whose slot holds
\* the raw address: the greatest multiple of alignment not above
\* raw + alignment + PointerSize, as for size > 0.
C7_ZeroSize ==
    (call.op = "aligned_malloc" /\ call.size = 0
     /\ IsPowerOfTwo(call.alignment) /\ call.raw_mem # NullPtr)
        => /\ call.ret # NullPtr
           /\ call.ret % call.alignment = 0
           /\ call.ret <= call.raw_mem + call.alignment + PointerSize
           /\ call.raw_mem + call.alignment + PointerSize
                 < call.ret + call.alignment
           /\ SlotHolds(call.ret, call.raw_mem)

\* A zero-size request with the greatest power-of-two alignment.
C7_Witness ==
    /\ call.op = "aligned_malloc"
    /\ call.size = 0
    /\ call.alignment = 2 ^ (AddrBits - 1)
    /\ call.raw_mem # NullPtr
    /\ call.ret = 2 ^ (AddrBits - 1)

\* The ten lines of a complete run.
ExpectedOutput ==
    << [label |-> "std::aligned_alloc", size |-> 64, alignment |-> 16],
       [label |-> "aligned_malloc", size |-> 64, alignment |-> 16],
       [label |-> "std::aligned_alloc", size |-> 128, alignment |-> 32],
       [label |-> "aligned_malloc", size |-> 128, alignment |-> 32],
       [label |-> "std::aligned_alloc", size |-> 256, alignment |-> 64],
       [label |-> "aligned_malloc", size |-> 256, alignment |-> 64],
       [label |-> "std::aligned_alloc", size |-> 1024, alignment |-> 64],
       [label |-> "aligned_malloc", size |-> 1024, alignment |-> 64],
       [label |-> "std::aligned_alloc", size |-> 1048576, alignment |-> 64],
       [label |-> "aligned_malloc", size |-> 1048576, alignment |-> 64] >>

\* The output so far is the start of the expected output, and the loop being
\* run is the one whose line comes next.
OutputFollowsPhases ==
    /\ Len(out) <= Len(ExpectedOutput)
    /\ out = SubSeq(ExpectedOutput, 1, Len(out))
    /\ pc \in { "ref_loop", "ref_free" } => Len(out) = 2 * (row - 1)
    /\ pc \in { "my_loop", "my_free" } => Len(out) = 2 * (row - 1) + 1
    /\ pc = "done" => out = ExpectedOutput

\* A line is printed only between iterations, when the loop has run all of
\* its iterations and has given back what it allocated.
LineOnlyAfterLoop ==
    Len(out') # Len(out) =>
        /\ out' = Append(out, ExpectedOutput[Len(out) + 1])
        /\ pc \in { "ref_loop", "my_loop" }
        /\ i = Iterations
        /\ outstanding = {}
        /\ call.op = (IF pc = "ref_loop" THEN "std::free" ELSE "aligned_free")

\* C8: the driver terminates after running the five configurations in order
\* and prints exactly ten lines: per configuration the reference line after
\* all reference iterations, then the custom line after all custom
\* iterations, before anything of the next configuration.
C8_TenLinesInOrder ==
    /\ <>(pc = "done")
    /\ [](OutputFollowsPhases)
    /\ [][LineOnlyAfterLoop]_vars

\* The run is over with ten lines printed.
C8_Witness ==
    /\ pc = "done"
    /\ Len(out) = 10
    /\ out[10].size = 1024 * 1024

\* C9: for every size and every alignment >= 1 of the unsigned size type,
\* the byte count passed to malloc is at least (handle - raw) + size.
C9_NeverUnderAllocates ==
    \A b \in blocks :
        b.alignment >= 1 => b.requested >= (b.handle - b.raw) + b.size

\* The handle the driver is about to pass to aligned_free is null or that of
\* a live block whose raw block is outstanding.
FreedHandleIsLive ==
    pc = "my_free" =>
        \/ ptr = NullPtr
        \/ \E b \in blocks :
              /\ b.handle = ptr
              /\ RawBlockOf(b) \in outstanding
              /\ SlotHolds(ptr, b.raw)

\* A loop is left only when it has run all of its iterations.
LoopsRunToTheEnd ==
    (pc \in { "ref_loop", "my_loop" } /\ pc' \notin { "ref_free", "my_free" }
     /\ pc' # pc)
        => i = Iterations

\* C10: with a raw allocator that may fail at any call, every handle the
\* driver passes to aligned_free is null or the handle of an outstanding
\* block, free is never called with an address that is not outstanding, and
\* every iteration of every configuration is run to completion.
C10_DriverSafeUnderExhaustion ==
    /\ [](FreedHandleIsLive)
    /\ [](~invalidFree)
    /\ [][LoopsRunToTheEnd]_vars
    /\ <>(pc = "done")

\* The run completed although its last aligned_malloc failed.
C10_Witness ==
    /\ pc = "done"
    /\ call.op = "aligned_free"
    /\ call.null_arg
    /\ ~invalidFree

\* Byte k of the metadata slot below handle is the same before and after
\* the step.
SlotByteKept(handle, k) ==
    \E x \in { Wrap(handle - PointerSize + k) } :
       /\ (x \in DOMAIN mem') = (x \in DOMAIN mem)
       /\ x \in DOMAIN mem => mem'[x] = mem[x]

\* A step leaves the slot of every block that stays alive as it was, byte for
\* byte, and leaves its raw block outstanding.
SurvivorsUntouched ==
    \A b \in blocks \cap blocks' :
        /\ \A k \in 0 .. PointerSize - 1 : SlotByteKept(b.handle, k)
        /\ RawBlockOf(b) \in outstanding'

\* A step that releases a block takes back that block's raw allocation with
\* one valid call of free, and no other.
ReleaseTakesOnlyItsOwn ==
    \A b \in blocks \ blocks' :
        /\ call'.frees = 1
        /\ invalidFree' = invalidFree
        /\ outstanding' = outstanding \ { RawBlockOf(b) }
        /\ blocks' = blocks \ { b }

\* The raw blocks behind two live blocks are disjoint and so are their handles.
LiveBlocksDisjoint ==
    \A b, c \in blocks :
        b # c =>
            /\ b.handle # c.handle
            /\ \/ b.raw + Extent(b.requested) <= c.raw
               \/ c.raw + Extent(c.requested) <= b.raw

\* C11: with several blocks alive at once, each released at most once and
\* written only inside its own payload, no allocation, release or payload
\* write on one block changes another block's slot, which keeps its own raw
\* address, and releasing in any order frees each raw address exactly once.
C11_LiveBlocksIndependent ==
    /\ [][SurvivorsUntouched]_vars
    /\ [][ReleaseTakesOnlyItsOwn]_vars
    /\ [](LiveBlocksDisjoint)
    /\ [](\A b \in blocks : SlotHolds(b.handle, b.raw))
    /\ [](~invalidFree)

\* Of two blocks the one at the lower address has been released; the other,
\* with a written payload, is still alive and its slot holds its raw address.
C11_Witness ==
    /\ call.op = "aligned_free"
    /\ ~call.null_arg
    /\ \E b \in blocks :
          /\ blocks = { b }
          /\ b.raw > PointerSize
          /\ b.handle \in DOMAIN mem
          /\ mem[b.handle] = 255
          /\ SlotHolds(b.handle, b.raw)
          /\ outstanding = { RawBlockOf(b) }

====
